---------------------------- MODULE Spec2Model ----------------------------
(***************************************************************************)
(* A model of src/ignou_percentage_calculator.py: the fetch handler of the *)
(* grade card calculator (rate-limit gate, retry loop, driver set-up,      *)
(* form submission, page classification, table extraction), together with  *)
(* the ResourceManager and the RateLimiter it uses.                        *)
(*                                                                         *)
(* Text is modelled as a sequence of one-character strings, so that        *)
(* lower(), strip() and the substring test are computed, not assumed.      *)
(***************************************************************************)
EXTENDS Integers, Sequences, FiniteSets, TLC

(***************************************************************************)
(* Bounds of the model.                                                    *)
(***************************************************************************)
HandlerSessions == 1    \* sessions of the handler specification
NumSessions == 2        \* concurrent sessions of the cleanup and rate-limiter specifications
MaxClicks == 2          \* admitted clicks of the handler and cleanup specifications
MaxRows == 2            \* rows of a table of the scoring specification
MaxAdds == 4            \* add_driver calls of the manager specification
MaxTime == 602          \* the clock stops here
PoolSessions == 6       \* concurrent sessions of the pool specification
RateMaxTime == 62       \* the clock of the rate-limiter specification stops here

(***************************************************************************)
(* Program constants.                                                      *)
(***************************************************************************)
semaphore_permits == 5
cleanup_interval == 300
max_driver_age == 600
max_driver_idle == 300
max_requests == 10
time_window == 60
max_retries == 2
retry_delay == 3

\* Python's None for a value that is otherwise a tuple; Some(x) is a value present
None == <<>>
Some(x) == <<x>>
Get(o) == o[1]
\* no thread holds the lock
NoHolder == 0

Max(a, b) == IF a > b THEN a ELSE b

Handlers == 1..HandlerSessions
Sessions == 1..NumSessions
Pool == 1..PoolSessions
AllSessions == 1..Max(HandlerSessions, Max(NumSessions, PoolSessions))

VARIABLES
    now,             \* time.time()
    requests,        \* RateLimiter.requests
    admitted,        \* history: the times at which check_rate_limit returned True
    active_drivers,  \* ResourceManager.active_drivers: session id -> entry or None
    lock,            \* holder of ResourceManager.lock, or None
    driver_semaphore,\* permits left in ResourceManager.driver_semaphore
    last_cleanup,    \* ResourceManager.last_cleanup
    live,            \* drivers created by webdriver.Chrome and not yet quit
    foreign_ops,     \* history: <<session, driver>> for every operation of a
                     \* session on a driver that another session created
    pc,              \* position of each session's handler
    processing,      \* st.session_state.processing
    retry_count,     \* handler local retry_count
    driver,          \* handler local driver
    current_time,    \* add_driver local current_time
    enrollment,      \* the text of the enrollment input
    msgs,            \* the messages shown to the user in this invocation
    attempts,        \* history: the outcome of every attempt of this invocation
    exit,            \* how the try block was left: continue, break or stop
    created,         \* history: number of drivers each session has created
    form,            \* the controls of the portal's form that this attempt has
                     \* located and operated, in order
    loaded,          \* the page in the driver's browser when the wait after the
                     \* submission ended, or None
    delays,          \* history: the duration of every time.sleep of this invocation
    page,            \* classifier specification: the page under classification
    verdict          \* classifier specification: the handler's result for it

rm == <<active_drivers, lock, driver_semaphore, last_cleanup, live, foreign_ops>>
limiter == <<requests, admitted>>
classifier == <<page, verdict>>
handler == <<pc, processing, retry_count, driver, current_time, enrollment, msgs,
             attempts, exit, created, form, loaded, delays>>
vars == <<now, limiter, rm, handler, classifier>>


(***************************************************************************)
(* Text: str.lower(), str.strip() and the substring test `x in y`.         *)
(***************************************************************************)
UpperCase == <<"A","B","C","D","E","F","G","H","I","J","K","L","M",
               "N","O","P","Q","R","S","T","U","V","W","X","Y","Z">>
LowerCase == <<"a","b","c","d","e","f","g","h","i","j","k","l","m",
               "n","o","p","q","r","s","t","u","v","w","x","y","z">>

LowerChar(c) ==
    IF \E i \in DOMAIN UpperCase : UpperCase[i] = c
    THEN LowerCase[CHOOSE i \in DOMAIN UpperCase : UpperCase[i] = c]
    ELSE c

Lower(t) == [i \in DOMAIN t |-> LowerChar(t[i])]

Contains(needle, hay) ==
    \E i \in 1..(Len(hay) - Len(needle) + 1) :
        SubSeq(hay, i, i + Len(needle) - 1) = needle

IsSpace(c) == c \in {" ", "\t", "\n"}

RECURSIVE LStrip(_)
LStrip(t) == IF t # <<>> /\ IsSpace(Head(t)) THEN LStrip(Tail(t)) ELSE t

RECURSIVE RStrip(_)
RStrip(t) ==
    IF t # <<>> /\ IsSpace(t[Len(t)]) THEN RStrip(SubSeq(t, 1, Len(t) - 1)) ELSE t

Strip(t) == RStrip(LStrip(t))

(***************************************************************************)
(* The page read after submission.  A page has: the div with id captcha    *)
(* (or not), free text, the text of the span                               *)
(* ctl00_ContentPlaceHolder1_lblMsg (None when the span is absent) and the *)
(* table ctl00_ContentPlaceHolder1_gvDetail (None when absent).  A table   *)
(* is its th texts and, for every tr after the first, its td texts.        *)
(***************************************************************************)
CaptchaWord == <<"c","a","p","t","c","h","a">>
CaptchaDivMarkup == <<"<","d","i","v"," ","i","d","=","c","a","p","t","c","h","a",">">>

RawTexts ==
    { <<>>,
      <<"c","a","p","t","c","h","a">>,
      <<"r","e","C","A","P","T","C","H","A","!">>,
      <<"c","a","p","c","h","a">> }

MsgTexts ==
    { <<>>,
      <<" ">>,
      <<"N","o"," ","d","a","t","a">>,
      <<" ","N","o"," ","d","a","t","a","\n">> }

\* the texts of the cells of the sample tables
COMPLETED == <<"C","O","M","P","L","E","T","E","D">>
NOT_COMPLETED == <<"N","O","T"," ","C","O","M","P","L","E","T","E","D">>
MCS011 == <<"M","C","S","0","1","1">>
MCS012 == <<"M","C","S","0","1","2">>
MCS013 == <<"M","C","S","0","1","3">>
MCS014 == <<"M","C","S","0","1","4">>
MCSL001LAB == <<"M","C","S","L","0","0","1","L","A","B">>
MCSL016 == <<"M","C","S","L","0","1","6">>
BCSL012 == <<"B","C","S","L","0","1","2">>
CSLab02 == <<"C","S","L","a","b","0","2">>
n0 == <<"0">>
n40 == <<"4","0">>
n50 == <<"5","0">>
n55 == <<"5","5">>
n60 == <<"6","0">>
n70 == <<"7","0">>
n80 == <<"8","0">>
n87 == <<"8","7">>
n90 == <<"9","0">>
Dash == <<"-">>
NotAvailable == <<"N","/","A">>
Absent == <<"A","B">>
Blank == <<>>
TotalWord == <<"T","o","t","a","l">>

Tables ==
    { [headers |-> <<"COURSE", "STATUS", "Asgn1", "TERM END THEORY", "TERM END PRACTICAL">>,
       rows |-> << <<MCS011, COMPLETED, n55, n80, Dash>>, <<MCSL016, Dash>> >>],
      [headers |-> <<"COURSE", "STATUS", "Asgn1", "TERM END THEORY", "TERM END PRACTICAL">>,
       rows |-> << <<MCS011, n80>>, <<>> >>],
      [headers |-> <<"STATUS", "Asgn1", "TERM END THEORY", "TERM END PRACTICAL">>,
       rows |-> << <<COMPLETED, n55, n80, Dash>> >>],
      [headers |-> <<"COURSE", "Asgn1", "TERM END THEORY", "TERM END PRACTICAL">>,
       rows |-> << <<MCS011, n55, n80, Dash>> >>] }

Pages ==
    [captchaDiv : BOOLEAN, text : RawTexts, msg : {None} \cup {Some(t) : t \in MsgTexts},
     table : {None} \cup {Some(t) : t \in Tables}]

\* driver.page_source: the markup holds the div's id and the message text
page_source(p) ==
    (IF p.captchaDiv THEN CaptchaDivMarkup ELSE <<>>)
        \o p.text \o (IF p.msg # None THEN Get(p.msg) ELSE <<>>)

\* line 492
CaptchaIndicator(p) == p.captchaDiv \/ Contains(CaptchaWord, Lower(page_source(p)))

\* Variant of ErrorMessage: the text is not stripped.
ErrorMessageUnstripped(p) == p.msg # None /\ Get(p.msg) # <<>>

\* lines 502-503
ErrorMessage(p) == p.msg # None /\ Strip(Get(p.msg)) # <<>>

\* Variant of ValidRows: the first row that fits, and no other.
ValidRowsFirstOnly(t) ==
    LET fitting == SelectSeq(t.rows, LAMBDA r : Len(r) = Len(t.headers))
    IN  IF fitting = <<>> THEN <<>> ELSE <<Head(fitting)>>

\* lines 535-540
ValidRows(t) == SelectSeq(t.rows, LAMBDA r : Len(r) = Len(t.headers))

HasColumn(t, c) == \E i \in DOMAIN t.headers : t.headers[i] = c

\* df[c] of row r: the cell under header c
Cell(t, r, c) == r[CHOOSE i \in DOMAIN t.headers : t.headers[i] = c]

(***************************************************************************)
(* Lines 557-563: numeric conversion.  The tokens "-", "N/A" and "" are    *)
(* replaced by 0; pd.to_numeric(errors='coerce') gives the value of a      *)
(* numeric text and NaN for any other text, and fillna makes NaN 0.  The   *)
(* numeric texts of the model are the unsigned decimal integers.           *)
(***************************************************************************)
Digits == <<"0","1","2","3","4","5","6","7","8","9">>

IsDigit(c) == \E i \in DOMAIN Digits : Digits[i] = c

DigitValue(c) == (CHOOSE i \in DOMAIN Digits : Digits[i] = c) - 1

RECURSIVE DecimalValue(_)
DecimalValue(t) ==
    IF t = <<>> THEN 0
    ELSE 10 * DecimalValue(SubSeq(t, 1, Len(t) - 1)) + DigitValue(t[Len(t)])

IsNumericText(t) == t # <<>> /\ \A i \in DOMAIN t : IsDigit(t[i])

ZeroTokens == {<<"-">>, <<"N","/","A">>, <<>>}

\* Variant of to_numeric: errors='raise' in effect, a text that is no number
\* is not coerced.
to_numeric_uncoerced(cell) ==
    IF cell \in ZeroTokens THEN 0
    ELSE IF IsNumericText(cell) THEN DecimalValue(cell)
    ELSE -1

to_numeric(cell) ==
    IF cell \in ZeroTokens THEN 0
    ELSE IF IsNumericText(cell) THEN DecimalValue(cell)
    ELSE 0

NumericColumns == <<"Asgn1", "TERM END THEORY", "TERM END PRACTICAL">>

\* line 562: one warning for every numeric column that the table lacks
MissingColumnWarnings(t) ==
    [i \in 1..Cardinality({k \in DOMAIN NumericColumns : ~HasColumn(t, NumericColumns[k])})
        |-> "column_missing"]

Numeric(t, r, c) == IF HasColumn(t, c) THEN to_numeric(Cell(t, r, c)) ELSE 0

\* df after line 563, one record for every valid row (STATUS read at line 566)
Record(t, r) ==
    [COURSE |-> Cell(t, r, "COURSE"),
     STATUS |-> Cell(t, r, "STATUS"),
     Asgn1 |-> Numeric(t, r, "Asgn1"),
     THEORY |-> Numeric(t, r, "TERM END THEORY"),
     PRACTICAL |-> Numeric(t, r, "TERM END PRACTICAL")]

RECURSIVE Records(_, _)
Records(t, rows) ==
    IF rows = <<>> THEN <<>> ELSE <<Record(t, Head(rows))>> \o Records(t, Tail(rows))

df(t) == Records(t, ValidRows(t))

(***************************************************************************)
(* Lines 565-591: filter, scores, totals and percentage.  Marks are        *)
(* integers; the weighted scores and totals are kept in tenths and the     *)
(* percentage in hundredths, so that 0.3, 0.7 and round(x, 2) are exact.   *)
(***************************************************************************)
MCSL == <<"M","C","S","L">>
LabWord == <<"l","a","b">>

startswith(t, prefix) ==
    Len(t) >= Len(prefix) /\ SubSeq(t, 1, Len(prefix)) = prefix

\* Variant of Scored: every course with "lab" in its code is left out, the
\* MCSL ones too.
ScoredNoLabAtAll(rec) ==
    /\ rec.STATUS = COMPLETED
    /\ ~Contains(LabWord, Lower(rec.COURSE))

\* lines 566-567
Scored(rec) ==
    /\ rec.STATUS = COMPLETED
    /\ startswith(rec.COURSE, MCSL) \/ ~Contains(LabWord, Lower(rec.COURSE))

df_calc(t) == SelectSeq(df(t), Scored)

\* Variant of TheoryOrPractical: the theory mark for every course.
TheoryAlways(rec) == rec.THEORY

\* line 572
TheoryOrPractical(rec) ==
    IF startswith(rec.COURSE, MCSL) THEN rec.PRACTICAL ELSE rec.THEORY

\* lines 570-574, in tenths
ScoredRecord(rec) ==
    [COURSE |-> rec.COURSE, STATUS |-> rec.STATUS, Asgn1 |-> rec.Asgn1,
     THEORY |-> rec.THEORY, PRACTICAL |-> rec.PRACTICAL,
     Assignments30 |-> 3 * rec.Asgn1,
     Theory70 |-> 7 * TheoryOrPractical(rec),
     Total |-> 3 * rec.Asgn1 + 7 * TheoryOrPractical(rec)]

RECURSIVE ScoredRecords(_)
ScoredRecords(recs) ==
    IF recs = <<>> THEN <<>>
    ELSE <<ScoredRecord(Head(recs))>> \o ScoredRecords(Tail(recs))

\* df_calc[c].sum(): the sum of column c of the records calc
RECURSIVE SumColumn(_, _)
SumColumn(calc, c) ==
    IF calc = <<>> THEN 0 ELSE Head(calc)[c] + SumColumn(Tail(calc), c)

\* round(n / d, 0) for integers n >= 0 and d > 0, halves to the even neighbour
RoundDiv(n, d) ==
    LET quot == n \div d
        rest == n % d
    IN  IF 2 * rest < d THEN quot
        ELSE IF 2 * rest > d THEN quot + 1
        ELSE IF quot % 2 = 0 THEN quot ELSE quot + 1

\* Variant of Percentage: the Total row of the display counts as a subject.
PercentageCountingTotalRow(calc) ==
    LET num_subjects == Len(calc) + 1
        total_possible_marks == num_subjects * 100
        total_obtained_marks == SumColumn(calc, "Total")
    IN  IF total_possible_marks > 0
        THEN RoundDiv(total_obtained_marks * 1000, total_possible_marks)
        ELSE 0

\* lines 588-591, in hundredths: (obtained / possible) * 100 with two decimals
Percentage(calc) ==
    LET num_subjects == Len(calc)
        total_possible_marks == num_subjects * 100
        total_obtained_marks == SumColumn(calc, "Total")
    IN  IF total_possible_marks > 0
        THEN RoundDiv(total_obtained_marks * 1000, total_possible_marks)
        ELSE 0

\* lines 570-594 for the scored records calc
Summary(calc) ==
    [scored |-> calc,
     totals |-> [COURSE |-> <<"T","o","t","a","l">>,
                 Asgn1 |-> SumColumn(calc, "Asgn1"),
                 THEORY |-> SumColumn(calc, "THEORY"),
                 PRACTICAL |-> SumColumn(calc, "PRACTICAL"),
                 Assignments30 |-> SumColumn(calc, "Assignments30"),
                 Theory70 |-> SumColumn(calc, "Theory70"),
                 Total |-> SumColumn(calc, "Total")],
     num_subjects |-> Len(calc),
     total_possible_marks |-> Len(calc) * 100,
     total_obtained_marks |-> SumColumn(calc, "Total"),
     percentage |-> Percentage(calc)]

\* lines 598-600: the incomplete subjects of the PDF report
df_incomplete(t) ==
    SelectSeq(SelectSeq(df(t), LAMBDA rec : rec.STATUS # COMPLETED),
              LAMBDA rec : rec.COURSE # TotalWord)

\* line 794: the incomplete subjects of the table on the screen
df_incomplete_displayed(t) == SelectSeq(df(t), LAMBDA rec : rec.STATUS # COMPLETED)

\* the handler's result for a page: the outcome of the attempt, the messages
\* shown, how the try block is left, the server's message, the rows that the
\* extraction kept, df after the numeric conversion, the summary, and the
\* incomplete subjects of the PDF report and of the screen
Result(outcome, shown, exit_by) ==
    [outcome |-> outcome, msgs |-> shown, exit |-> exit_by, text |-> <<>>,
     rows |-> <<>>, df |-> <<>>, summary |-> None,
     incomplete_report |-> <<>>, incomplete_displayed |-> <<>>]

(***************************************************************************)
(* Lines 488-844 for a page p (HandleTable: lines 513-844, the table and   *)
(* what follows): what the handler shows, how the attempt ends (outcome)   *)
(* and how the try block is left (exit).  create_temp_file returns a path, *)
(* a str, which is no context manager: the with statements of lines 494    *)
(* and 505 raise, and the except Exception clause of lines 860-864 shows   *)
(* the generic error and breaks.  st.stop() raises a BaseException, which  *)
(* no except clause catches: only finally runs.  A table without a STATUS  *)
(* column raises KeyError at line 566.  When no record is scored,          *)
(* df_calc.apply(..., axis=1) of line 571 returns a copy of the empty      *)
(* frame with all its columns, and assigning that frame to the single      *)
(* column "70% Theory" raises ValueError.                                  *)
(***************************************************************************)
\* Variant of ScoreTable: the KeyError of line 566 is taken for a transient
\* failure, the loop goes on.
ScoreTableRetryingKeyError(t) ==
    IF ~HasColumn(t, "STATUS")
    THEN [Result("exception", MissingColumnWarnings(t) \o <<"generic_error">>, "continue")
             EXCEPT !.rows = ValidRows(t)]
    ELSE LET frame == df(t)
             calc == ScoredRecords(df_calc(t))
         IN  IF calc = <<>>
             THEN [Result("exception", MissingColumnWarnings(t) \o <<"generic_error">>,
                          "break")
                      EXCEPT !.rows = ValidRows(t), !.df = frame]
             ELSE [Result("success", MissingColumnWarnings(t) \o <<"success">>, "break")
                      EXCEPT !.rows = ValidRows(t), !.df = frame,
                             !.summary = Some(Summary(calc)),
                             !.incomplete_report = df_incomplete(t),
                             !.incomplete_displayed = df_incomplete_displayed(t)]

\* lines 557-844 for the table t, which has a COURSE column and valid rows
ScoreTable(t) ==
    IF ~HasColumn(t, "STATUS")
    THEN [Result("exception", MissingColumnWarnings(t) \o <<"generic_error">>, "break")
             EXCEPT !.rows = ValidRows(t)]
    ELSE LET frame == df(t)
             calc == ScoredRecords(df_calc(t))
         IN  IF calc = <<>>
             THEN [Result("exception", MissingColumnWarnings(t) \o <<"generic_error">>,
                          "break")
                      EXCEPT !.rows = ValidRows(t), !.df = frame]
             ELSE [Result("success", MissingColumnWarnings(t) \o <<"success">>, "break")
                      EXCEPT !.rows = ValidRows(t), !.df = frame,
                             !.summary = Some(Summary(calc)),
                             !.incomplete_report = df_incomplete(t),
                             !.incomplete_displayed = df_incomplete_displayed(t)]

\* Variant of HandleTable: without the test of lines 550-555, line 567 raises
\* KeyError for a table without a COURSE column.
HandleTableNoCourseCheck(p) ==
    IF p.table = None
    THEN Result("table_not_found", <<"table_not_found">>, "stop")
    ELSE IF ValidRows(Get(p.table)) = <<>>
    THEN Result("no_rows", <<"no_rows">>, "stop")
    ELSE IF ~HasColumn(Get(p.table), "COURSE")
    THEN [Result("exception", MissingColumnWarnings(Get(p.table)) \o <<"generic_error">>,
                 "break")
             EXCEPT !.rows = ValidRows(Get(p.table))]
    ELSE ScoreTable(Get(p.table))

HandleTable(p) ==
    IF p.table = None
    THEN Result("table_not_found", <<"table_not_found">>, "stop")
    ELSE IF ValidRows(Get(p.table)) = <<>>
    THEN Result("no_rows", <<"no_rows">>, "stop")
    ELSE IF ~HasColumn(Get(p.table), "COURSE")
    THEN [Result("no_course", <<"no_course">>, "stop")
             EXCEPT !.rows = ValidRows(Get(p.table))]
    ELSE ScoreTable(Get(p.table))

\* Variant of HandlePage: the message is checked before the CAPTCHA.
HandlePageMessageFirst(p) ==
    IF ErrorMessage(p)
    THEN [Result("server_error", <<"server_error", "generic_error">>, "break")
             EXCEPT !.text = Strip(Get(p.msg))]
    ELSE IF CaptchaIndicator(p)
    THEN Result("captcha", <<"captcha", "generic_error">>, "break")
    ELSE HandleTable(p)

\* Variant of HandlePage: a CAPTCHA page raises WebDriverException's way out,
\* the loop goes on.
HandlePageRetryCaptcha(p) ==
    IF CaptchaIndicator(p)
    THEN Result("captcha", <<"captcha">>, "continue")
    ELSE IF ErrorMessage(p)
    THEN [Result("server_error", <<"server_error", "generic_error">>, "break")
             EXCEPT !.text = Strip(Get(p.msg))]
    ELSE HandleTable(p)

HandlePage(p) ==
    IF CaptchaIndicator(p)
    THEN Result("captcha", <<"captcha", "generic_error">>, "break")
    ELSE IF ErrorMessage(p)
    THEN [Result("server_error", <<"server_error", "generic_error">>, "break")
             EXCEPT !.text = Strip(Get(p.msg))]
    ELSE HandleTable(p)


\* a page that holds a grade card, and the handler's result for it,
\* evaluated once
GoodPage ==
    [captchaDiv |-> FALSE, text |-> <<>>, msg |-> None,
     table |-> Some([headers |-> <<"COURSE", "STATUS", "Asgn1", "TERM END THEORY", "TERM END PRACTICAL">>,
                     rows |-> << <<MCS011, COMPLETED, n55, n80, Dash>>,
                                 <<MCSL016, Dash>> >>])]

GoodPageHandled == HandlePage(GoodPage)

Handled(p) == IF p = GoodPage THEN GoodPageHandled ELSE HandlePage(p)

(***************************************************************************)
(* RateLimiter.check_rate_limit, lines 107-118.  The whole body runs under *)
(* RateLimiter.lock, so it is one step.                                    *)
(***************************************************************************)
\* Variant of LimitReached: `>` for `>=`.
LimitReachedOffByOne(reqs) == Len(reqs) > max_requests

LimitReached(reqs) == Len(reqs) >= max_requests

\* Variant of check_rate_limit: the request is recorded before the test.
check_rate_limit_recording ==
    LET kept == SelectSeq(requests, LAMBDA req_time : now - req_time < time_window)
    IN  [ok |-> ~LimitReached(kept), requests |-> Append(kept, now)]

check_rate_limit ==
    LET kept == SelectSeq(requests, LAMBDA req_time : now - req_time < time_window)
    IN  IF LimitReached(kept)
        THEN [ok |-> FALSE, requests |-> kept]
        ELSE [ok |-> TRUE, requests |-> Append(kept, now)]

(***************************************************************************)
(* ResourceManager, lines 43-97.                                           *)
(***************************************************************************)
Entry(d, t) == [driver |-> d, created_at |-> t, last_used |-> t]

Registered(sid) == active_drivers[sid] # None

\* Variant of LockAcquirable: a reentrant lock (threading.RLock).
LockAcquirableReentrant(s) == lock = NoHolder \/ lock = s

\* `with self.lock` by thread s: threading.Lock is not reentrant
LockAcquirable(s) == lock = NoHolder

\* lines 79-84, evaluated at time t
ExpiredSessions(t) ==
    {sid \in AllSessions :
        /\ Registered(sid)
        /\ \/ t - Get(active_drivers[sid]).created_at > max_driver_age
           \/ t - Get(active_drivers[sid]).last_used > max_driver_idle}

\* the drivers registered under the session ids of S
DriversOf(S) == {Get(active_drivers[sid]).driver : sid \in {x \in S : Registered(x)}}

\* operations of session s on drivers that another session created
Foreign(s, ds) == {<<s, d>> : d \in {x \in ds : x[1] # s}}

(***************************************************************************)
(* Enrollment validation, line 377.                                        *)
(***************************************************************************)
DigitChars == {"0","1","2","3","4","5","6","7","8","9"}

\* characters outside 0-9 for which str.isdigit() is also True: the
\* superscript digits one, two and three
OtherDigitChars == {"¹", "²", "³"}

\* str.isdigit(): False for the empty string, True when every character has
\* the Unicode property Numeric_Type Digit or Decimal
isdigit(e) == e # <<>> /\ \A i \in DOMAIN e : e[i] \in DigitChars \cup OtherDigitChars

ValidEnrollment(e) == isdigit(e) /\ Len(e) \in {9, 10}

Enrollments ==
    { <<"1","2","3","4","5","6","7","8","9">>,
      <<"1","2","3","4","5","6","7","8","9","0">>,
      <<"1","2","3","4","5","6","7","8">>,
      <<"1","2","3","4","5","6","7","8","x">> }

(***************************************************************************)
(* The fetch handler, lines 364-868.                                       *)
(***************************************************************************)
SetLast(seq, x) == [seq EXCEPT ![Len(seq)] = x]

\* Lines 364-372: the button (disabled while processing or without an
\* enrollment), the rate-limit gate, and the set-up of the retry loop.
Click(s, e) ==
    /\ pc[s] \in {"idle", "done"}
    /\ ~processing[s]
    /\ e # <<>>
    /\ LET r == check_rate_limit
       IN  /\ requests' = r.requests
           /\ admitted' = IF r.ok THEN Append(admitted, now) ELSE admitted
           /\ enrollment' = [enrollment EXCEPT ![s] = e]
           /\ attempts' = [attempts EXCEPT ![s] = <<>>]
           /\ exit' = [exit EXCEPT ![s] = "none"]
           /\ delays' = [delays EXCEPT ![s] = <<>>]
           /\ IF r.ok
              THEN /\ processing' = [processing EXCEPT ![s] = TRUE]
                   /\ driver' = [driver EXCEPT ![s] = None]
                   /\ retry_count' = [retry_count EXCEPT ![s] = 0]
                   /\ msgs' = [msgs EXCEPT ![s] = <<>>]
                   /\ pc' = [pc EXCEPT ![s] = "loop"]
              ELSE /\ msgs' = [msgs EXCEPT ![s] = <<"rate_limited">>]
                   /\ pc' = [pc EXCEPT ![s] = "done"]
                   /\ UNCHANGED <<processing, driver, retry_count>>
    /\ UNCHANGED <<now, rm, current_time, created, form, loaded, classifier>>

\* Variant of ValidationFail: the request recorded at the gate is taken back.
ValidationFailRefunding(s) ==
    /\ pc[s] = "loop"
    /\ ~ValidEnrollment(enrollment[s])
    /\ requests' = SubSeq(requests, 1, Len(requests) - 1)
    /\ attempts' = [attempts EXCEPT ![s] = Append(@, "invalid_enrollment")]
    /\ msgs' = [msgs EXCEPT ![s] = Append(@, "invalid_enrollment")]
    /\ processing' = [processing EXCEPT ![s] = FALSE]
    /\ exit' = [exit EXCEPT ![s] = "stop"]
    /\ pc' = [pc EXCEPT ![s] = "finally"]
    /\ UNCHANGED <<now, admitted, rm, retry_count, driver, current_time, enrollment,
                   created, form, loaded, classifier, delays>>

\* Lines 376-380: validation fails, st.stop() leaves the try block.
ValidationFail(s) ==
    /\ pc[s] = "loop"
    /\ ~ValidEnrollment(enrollment[s])
    /\ attempts' = [attempts EXCEPT ![s] = Append(@, "invalid_enrollment")]
    /\ msgs' = [msgs EXCEPT ![s] = Append(@, "invalid_enrollment")]
    /\ processing' = [processing EXCEPT ![s] = FALSE]
    /\ exit' = [exit EXCEPT ![s] = "stop"]
    /\ pc' = [pc EXCEPT ![s] = "finally"]
    /\ UNCHANGED <<now, limiter, rm, retry_count, driver, current_time, enrollment,
                   created, form, loaded, classifier, delays>>

\* Variant of OnWebDriverException: the delay follows every failed attempt,
\* the last one too.
OnWebDriverExceptionAlwaysSleeping(s, att) ==
    /\ retry_count' = [retry_count EXCEPT ![s] = @ + 1]
    /\ attempts' = [attempts EXCEPT ![s] = att]
    /\ exit' = [exit EXCEPT ![s] = "continue"]
    /\ IF retry_count[s] + 1 > max_retries
       THEN /\ msgs' = [msgs EXCEPT ![s] = Append(@, "retries_exhausted")]
            /\ processing' = [processing EXCEPT ![s] = FALSE]
            /\ pc' = [pc EXCEPT ![s] = "sleep"]
       ELSE /\ msgs' = [msgs EXCEPT ![s] = Append(@, "retry_warning")]
            /\ processing' = processing
            /\ pc' = [pc EXCEPT ![s] = "sleep"]

\* Lines 846-859: except WebDriverException, for an attempt whose record in
\* attempts is att.
OnWebDriverException(s, att) ==
    /\ retry_count' = [retry_count EXCEPT ![s] = @ + 1]
    /\ attempts' = [attempts EXCEPT ![s] = att]
    /\ exit' = [exit EXCEPT ![s] = "continue"]
    /\ IF retry_count[s] + 1 > max_retries
       THEN /\ msgs' = [msgs EXCEPT ![s] = Append(@, "retries_exhausted")]
            /\ processing' = [processing EXCEPT ![s] = FALSE]
            /\ pc' = [pc EXCEPT ![s] = "finally"]
       ELSE /\ msgs' = [msgs EXCEPT ![s] = Append(@, "retry_warning")]
            /\ processing' = processing
            /\ pc' = [pc EXCEPT ![s] = "sleep"]

\* Lines 403-419: no Chromium binary, or webdriver.Chrome raises.
DriverInitFail(s) ==
    /\ pc[s] = "loop"
    /\ ValidEnrollment(enrollment[s])
    /\ OnWebDriverException(s, Append(attempts[s], "wde"))
    /\ UNCHANGED <<now, limiter, rm, driver, current_time, enrollment, created,
                   form, loaded, classifier, delays>>

\* Line 419: webdriver.Chrome returns a driver.
CreateDriver(s) ==
    /\ pc[s] = "loop"
    /\ ValidEnrollment(enrollment[s])
    /\ created' = [created EXCEPT ![s] = @ + 1]
    /\ driver' = [driver EXCEPT ![s] = <<s, created[s] + 1>>]
    /\ live' = live \cup {<<s, created[s] + 1>>}
    /\ attempts' = [attempts EXCEPT ![s] = Append(@, "started")]
    /\ form' = [form EXCEPT ![s] = <<>>]
    /\ loaded' = [loaded EXCEPT ![s] = None]
    /\ pc' = [pc EXCEPT ![s] = "add_driver"]
    /\ UNCHANGED <<now, limiter, active_drivers, lock, driver_semaphore, last_cleanup,
                   foreign_ops, processing, retry_count, current_time, enrollment,
                   msgs, exit, classifier, delays>>

\* Lines 52-54: add_driver takes the lock and reads the time.
AddDriverEnter(s) ==
    /\ pc[s] = "add_driver"
    /\ LockAcquirable(s)
    /\ lock' = s
    /\ current_time' = [current_time EXCEPT ![s] = now]
    /\ pc' = [pc EXCEPT ![s] = "add_locked"]
    /\ UNCHANGED <<now, limiter, active_drivers, driver_semaphore, last_cleanup, live,
                   foreign_ops, processing, retry_count, driver, enrollment, msgs,
                   attempts, exit, created, form, loaded, classifier, delays>>

\* Lines 55-65, with the lock held: the periodic cleanup (each
\* remove_driver(sid) of line 87 takes the lock again, lines 68-75), then
\* the semaphore, then the registration; the lock is released on return.
\* With a driver that is quit, the page in its browser is gone.
AddDriverRegister(s) ==
    /\ pc[s] = "add_locked"
    /\ LET due == current_time[s] - last_cleanup > cleanup_interval
           expired == IF due THEN ExpiredSessions(now) ELSE {}
           quit == DriversOf(expired)
           permits == driver_semaphore + Cardinality(expired)
       IN  /\ expired = {} \/ LockAcquirable(s)
           /\ permits > 0
           /\ driver_semaphore' = permits - 1
           /\ live' = live \ quit
           /\ foreign_ops' = foreign_ops \cup Foreign(s, quit)
           /\ active_drivers' =
                 [sid \in AllSessions |->
                     IF sid = s THEN Some(Entry(driver[s], current_time[s]))
                     ELSE IF sid \in expired THEN None
                     ELSE active_drivers[sid]]
           /\ last_cleanup' = IF due THEN current_time[s] ELSE last_cleanup
           /\ form' = [sid \in AllSessions |-> IF sid \in expired THEN <<>> ELSE form[sid]]
           /\ loaded' = [sid \in AllSessions |->
                            IF sid \in expired THEN None ELSE loaded[sid]]
    /\ lock' = NoHolder
    /\ pc' = [pc EXCEPT ![s] = "registered"]
    /\ UNCHANGED <<now, limiter, processing, retry_count, driver, current_time,
                   enrollment, msgs, attempts, exit, created, classifier, delays>>

\* Lines 429, 339-361: ensure_page_loaded raises WebDriverException.
LoadFail(s) ==
    /\ pc[s] = "registered"
    /\ OnWebDriverException(s, SetLast(attempts[s], "wde"))
    /\ UNCHANGED <<now, limiter, rm, driver, current_time, enrollment, created,
                   form, loaded, classifier, delays>>

\* Lines 429-430, 89-92: the page is loaded, then update_last_used.
UpdateLastUsed(s) ==
    /\ pc[s] = "registered"
    /\ LockAcquirable(s)
    /\ active_drivers' =
          [active_drivers EXCEPT ![s] =
              IF Registered(s) THEN Some([Get(@) EXCEPT !.last_used = now]) ELSE @]
    /\ pc' = [pc EXCEPT ![s] = "form"]
    /\ UNCHANGED <<now, limiter, lock, driver_semaphore, last_cleanup, live, foreign_ops,
                   processing, retry_count, driver, current_time, enrollment, msgs,
                   attempts, exit, created, form, loaded, classifier, delays>>

\* Lines 433-475: the controls of the form in the order in which the handler
\* locates and operates them (two selections, the enrollment typed, the click).
\* Variant of FormControls: the login button is clicked before the enrollment
\* is typed.
FormControlsClickEarly == <<"ddlGradecardfor", "ddlProgram", "btnlogin", "txtEnrno">>

FormControls == <<"ddlGradecardfor", "ddlProgram", "txtEnrno", "btnlogin">>

FormFailures == {FormControls[i] : i \in DOMAIN FormControls}

\* the controls operated before control f is looked for
OperatedBefore(f) ==
    SubSeq(FormControls, 1, (CHOOSE i \in DOMAIN FormControls : FormControls[i] = f) - 1)

\* Lines 433-463, 311-330: wait_and_find_element returns None for control f
\* after its bounded waits, and the handler raises WebDriverException.
FormFail(s, f) ==
    /\ pc[s] = "form"
    /\ f \in FormFailures
    /\ form' = [form EXCEPT ![s] = OperatedBefore(f)]
    /\ OnWebDriverException(s, SetLast(attempts[s], "wde"))
    /\ UNCHANGED <<now, limiter, rm, driver, current_time, enrollment, created,
                   loaded, classifier, delays>>

\* Variant of WaitSatisfied: both elements are awaited.
WaitSatisfiedByBoth(p) == p.table # None /\ p.msg # None

\* Lines 479-484: the wait ends when either element is present.
WaitSatisfied(p) == p.table # None \/ p.msg # None

\* Lines 433-486: the form is filled in and submitted, and neither the
\* results table nor the message appears within 30 seconds: TimeoutException,
\* raised again as WebDriverException.
WaitTimeout(s, p) ==
    /\ pc[s] = "form"
    /\ ~WaitSatisfied(p)
    /\ form' = [form EXCEPT ![s] = FormControls]
    /\ loaded' = [loaded EXCEPT ![s] = Some(p)]
    /\ OnWebDriverException(s, SetLast(attempts[s], "wde"))
    /\ UNCHANGED <<now, limiter, rm, driver, current_time, enrollment, created,
                   classifier, delays>>

\* Lines 433-844 and 860-864: the form is filled in and submitted, the wait
\* ends on page p, and the page is read and handled.
ReadPage(s, p) ==
    /\ pc[s] = "form"
    /\ WaitSatisfied(p)
    /\ form' = [form EXCEPT ![s] = FormControls]
    /\ loaded' = [loaded EXCEPT ![s] = Some(p)]
    /\ \E h \in {Handled(p)} :
          /\ msgs' = [msgs EXCEPT ![s] = @ \o h.msgs]
          /\ attempts' = [attempts EXCEPT ![s] = SetLast(@, h.outcome)]
          /\ exit' = [exit EXCEPT ![s] = h.exit]
    /\ processing' = [processing EXCEPT ![s] = FALSE]
    /\ pc' = [pc EXCEPT ![s] = "finally"]
    /\ UNCHANGED <<now, limiter, rm, retry_count, driver, current_time, enrollment,
                   created, classifier, delays>>

\* Line 859: time.sleep(3), inside the except clause: the thread is held up
\* for retry_delay time units before the finally block runs.
Sleep(s) ==
    /\ pc[s] = "sleep"
    /\ delays' = [delays EXCEPT ![s] = Append(@, retry_delay)]
    /\ pc' = [pc EXCEPT ![s] = "finally"]
    /\ UNCHANGED <<now, limiter, rm, processing, retry_count, driver, current_time,
                   enrollment, msgs, attempts, exit, created, form, loaded,
                   classifier>>

\* Variant of LoopAgain: one retry more.
LoopAgainOnceMore(s) == exit[s] = "continue" /\ retry_count[s] <= max_retries + 1

\* Line 374: the loop goes on after an attempt that neither broke nor stopped.
LoopAgain(s) == exit[s] = "continue" /\ retry_count[s] <= max_retries

\* Variant of Finally: the driver is released in the except clauses only, so
\* not when st.stop() leaves the try block.
FinallyNotOnStop(s) ==
    /\ pc[s] = "finally"
    /\ driver[s] = None \/ LockAcquirable(s)
    /\ IF driver[s] # None /\ Registered(s) /\ exit[s] # "stop"
       THEN /\ live' = live \ DriversOf({s})
            /\ foreign_ops' = foreign_ops \cup Foreign(s, DriversOf({s}))
            /\ active_drivers' = [active_drivers EXCEPT ![s] = None]
            /\ driver_semaphore' = driver_semaphore + 1
            /\ form' = [form EXCEPT ![s] = <<>>]
            /\ loaded' = [loaded EXCEPT ![s] = None]
       ELSE UNCHANGED <<live, foreign_ops, active_drivers, driver_semaphore, form,
                        loaded>>
    /\ processing' = [processing EXCEPT ![s] = FALSE]
    /\ pc' = [pc EXCEPT ![s] = IF LoopAgain(s) THEN "loop" ELSE "done"]
    /\ UNCHANGED <<now, limiter, lock, last_cleanup, retry_count, driver, current_time,
                   enrollment, msgs, attempts, exit, created, classifier, delays>>

\* Variant of Finally: the driver is released when the loop ends, not after
\* an attempt that is retried.
FinallyOnlyAtEnd(s) ==
    /\ pc[s] = "finally"
    /\ driver[s] = None \/ LockAcquirable(s)
    /\ IF driver[s] # None /\ Registered(s) /\ ~LoopAgain(s)
       THEN /\ live' = live \ DriversOf({s})
            /\ foreign_ops' = foreign_ops \cup Foreign(s, DriversOf({s}))
            /\ active_drivers' = [active_drivers EXCEPT ![s] = None]
            /\ driver_semaphore' = driver_semaphore + 1
            /\ form' = [form EXCEPT ![s] = <<>>]
            /\ loaded' = [loaded EXCEPT ![s] = None]
       ELSE UNCHANGED <<live, foreign_ops, active_drivers, driver_semaphore, form,
                        loaded>>
    /\ processing' = [processing EXCEPT ![s] = FALSE]
    /\ pc' = [pc EXCEPT ![s] = IF LoopAgain(s) THEN "loop" ELSE "done"]
    /\ UNCHANGED <<now, limiter, lock, last_cleanup, retry_count, driver, current_time,
                   enrollment, msgs, attempts, exit, created, classifier, delays>>

\* Lines 865-868 and 67-75: finally, with remove_driver under the lock.
Finally(s) ==
    /\ pc[s] = "finally"
    /\ driver[s] = None \/ LockAcquirable(s)
    /\ IF driver[s] # None /\ Registered(s)
       THEN /\ live' = live \ DriversOf({s})
            /\ foreign_ops' = foreign_ops \cup Foreign(s, DriversOf({s}))
            /\ active_drivers' = [active_drivers EXCEPT ![s] = None]
            /\ driver_semaphore' = driver_semaphore + 1
            /\ form' = [form EXCEPT ![s] = <<>>]
            /\ loaded' = [loaded EXCEPT ![s] = None]
       ELSE UNCHANGED <<live, foreign_ops, active_drivers, driver_semaphore, form,
                        loaded>>
    /\ processing' = [processing EXCEPT ![s] = FALSE]
    /\ pc' = [pc EXCEPT ![s] = IF LoopAgain(s) THEN "loop" ELSE "done"]
    /\ UNCHANGED <<now, limiter, lock, last_cleanup, retry_count, driver, current_time,
                   enrollment, msgs, attempts, exit, created, classifier, delays>>

\* Time passes.
Tick(d) ==
    /\ now' = now + d
    /\ UNCHANGED <<limiter, rm, handler, classifier>>

(***************************************************************************)
(* The handler specification: sessions that share one ResourceManager and  *)
(* one RateLimiter, with every way an attempt can end.                     *)
(***************************************************************************)
InitState ==
    /\ now = 0
    /\ requests = <<>>
    /\ admitted = <<>>
    /\ active_drivers = [s \in AllSessions |-> None]
    /\ lock = NoHolder
    /\ driver_semaphore = semaphore_permits
    /\ last_cleanup = 0
    /\ live = {}
    /\ foreign_ops = {}
    /\ pc = [s \in AllSessions |-> "idle"]
    /\ processing = [s \in AllSessions |-> FALSE]
    /\ retry_count = [s \in AllSessions |-> 0]
    /\ driver = [s \in AllSessions |-> None]
    /\ current_time = [s \in AllSessions |-> 0]
    /\ enrollment = [s \in AllSessions |-> <<>>]
    /\ msgs = [s \in AllSessions |-> <<>>]
    /\ attempts = [s \in AllSessions |-> <<>>]
    /\ exit = [s \in AllSessions |-> "none"]
    /\ created = [s \in AllSessions |-> 0]
    /\ form = [s \in AllSessions |-> <<>>]
    /\ loaded = [s \in AllSessions |-> None]
    /\ delays = [s \in AllSessions |-> <<>>]

Init ==
    /\ InitState
    /\ page = [captchaDiv |-> FALSE, text |-> <<>>, msg |-> None, table |-> None]
    /\ verdict = None

TickStep == cleanup_interval + 1

\* the inputs of the handler specification: a valid and an invalid enrollment,
\* and the pages without free text
HandlerEnrollments == {e \in Enrollments : Len(e) \in {8, 10}}

HandlerPages ==
    {p \in Pages :
        /\ p.text = <<>>
        /\ p.msg \in {None, Some(<<" ">>), Some(<<"N","o"," ","d","a","t","a">>)}}

Next ==
    \E s \in Handlers :
        \/ \E e \in HandlerEnrollments : Len(admitted) < MaxClicks /\ Click(s, e)
        \/ ValidationFail(s)
        \/ DriverInitFail(s)
        \/ CreateDriver(s)
        \/ AddDriverEnter(s)
        \/ AddDriverRegister(s)
        \/ LoadFail(s)
        \/ UpdateLastUsed(s)
        \/ \E f \in FormFailures : FormFail(s, f)
        \/ \E p \in HandlerPages : WaitTimeout(s, p)
        \/ \E p \in HandlerPages : ReadPage(s, p)
        \/ Sleep(s)
        \/ Finally(s)

Spec == Init /\ [][Next]_vars

(***************************************************************************)
(* The cleanup specification: the same sessions while time passes, so that *)
(* the periodic cleanup of add_driver comes due and registered drivers     *)
(* expire.  The enrollment is valid and the page read holds a grade card.  *)
(***************************************************************************)
GoodEnrollment == <<"1","2","3","4","5","6","7","8","9","0">>

NextCleanup ==
    \/ now + TickStep <= MaxTime /\ Tick(TickStep)
    \/ \E s \in Sessions :
        \/ Len(admitted) < MaxClicks /\ Click(s, GoodEnrollment)
        \/ CreateDriver(s)
        \/ AddDriverEnter(s)
        \/ AddDriverRegister(s)
        \/ LoadFail(s)
        \/ UpdateLastUsed(s)
        \/ ReadPage(s, GoodPage)
        \/ Sleep(s)
        \/ Finally(s)

SpecCleanup == Init /\ [][NextCleanup]_vars

(***************************************************************************)
(* The pool specification: more sessions than the semaphore has permits,   *)
(* each clicking once.                                                     *)
(***************************************************************************)
NextPool ==
    \E s \in Pool :
        \/ pc[s] = "idle" /\ Click(s, GoodEnrollment)
        \/ CreateDriver(s)
        \/ AddDriverEnter(s)
        \/ AddDriverRegister(s)
        \/ UpdateLastUsed(s)
        \/ ReadPage(s, GoodPage)
        \/ Finally(s)

SpecPool == Init /\ [][NextPool]_vars


(***************************************************************************)
(* The rate-limiter specification: sessions click again and again while    *)
(* time passes in steps that land on, just before and just after the       *)
(* window's edge.  The enrollment is too short, so that an admitted        *)
(* invocation ends at its validation.                                      *)
(***************************************************************************)
RateSteps == {time_window \div 2, time_window \div 2 + 1}

ShortEnrollment == <<"1","2","3","4","5","6","7","8">>

NextRate ==
    \/ \E d \in RateSteps : now + d <= RateMaxTime /\ Tick(d)
    \/ \E s \in Sessions :
        \/ Click(s, ShortEnrollment)
        \/ ValidationFail(s)
        \/ Finally(s)

SpecRate == Init /\ [][NextRate]_vars

(***************************************************************************)
(* The validation specification: the handler up to the end of its first    *)
(* attempt, for every text that the enrollment input (max_chars=10) can    *)
(* hold in the model: up to 10 ones, with at most one character replaced.  *)
(* An accepted enrollment goes on to the driver set-up, which fails here.  *)
(***************************************************************************)
max_chars == 10

Ones(n) == [i \in 1..n |-> "1"]

OddChars == {"0", "²", "³", "x", " ", "-"}

ValidationInputs ==
    UNION {{Ones(n)} \cup {[Ones(n) EXCEPT ![k] = c] : k \in 1..n, c \in OddChars} :
              n \in 1..max_chars}

NextValidate ==
    \E s \in Handlers :
        \/ \E e \in ValidationInputs : Len(admitted) < MaxClicks /\ Click(s, e)
        \/ ValidationFail(s)
        \/ DriverInitFail(s)
        \/ Sleep(s)
        \/ Finally(s)

SpecValidate == Init /\ [][NextValidate]_vars

(***************************************************************************)
(* The classifier specification: lines 488-844 applied to every page.      *)
(***************************************************************************)
ClassifyPage ==
    /\ verdict = None
    /\ verdict' = Some(HandlePage(page))
    /\ UNCHANGED <<now, limiter, rm, handler, page>>

NextPage(p) ==
    /\ verdict # None
    /\ page' = p
    /\ verdict' = None
    /\ UNCHANGED <<now, limiter, rm, handler>>

InitClassify ==
    /\ InitState
    /\ page \in Pages
    /\ verdict = None

NextClassify == ClassifyPage \/ \E p \in Pages : NextPage(p)

SpecClassify == InitClassify /\ [][NextClassify]_vars

(***************************************************************************)
(* The scoring specification: lines 488-844 applied to pages that hold a   *)
(* grade card table of up to MaxRows rows under one of three header rows   *)
(* (all columns; no TERM END PRACTICAL; no COURSE).                        *)
(***************************************************************************)
ScoreHeaders ==
    { <<"COURSE", "STATUS", "Asgn1", "TERM END THEORY", "TERM END PRACTICAL">>,
      <<"COURSE", "STATUS", "Asgn1", "TERM END THEORY">>,
      <<"STATUS", "Asgn1", "TERM END THEORY", "TERM END PRACTICAL">> }

RowPool ==
    { <<MCS011, COMPLETED, n55, n80, Dash>>,
      <<MCS012, COMPLETED, n60, n90, Blank>>,
      <<MCSL001LAB, COMPLETED, n40, n0, n80>>,
      <<MCSL016, COMPLETED, n50, n70, n80>>,
      <<BCSL012, COMPLETED, n70, n60, n0>>,
      <<CSLab02, COMPLETED, n50, n50, n50>>,
      <<MCS013, NOT_COMPLETED, n40, Dash, Dash>>,
      <<MCS014, COMPLETED, NotAvailable, Absent, n87>>,
      <<MCS012, COMPLETED, n87, Absent>>,
      <<TotalWord, Blank, n0, n0, n0>> }

ScoreTables ==
    [headers : ScoreHeaders, rows : UNION {[1..n -> RowPool] : n \in 0..MaxRows}]

ScorePages ==
    {[captchaDiv |-> FALSE, text |-> <<>>, msg |-> None, table |-> Some(t)] :
        t \in ScoreTables}

InitScore ==
    /\ InitState
    /\ page \in ScorePages
    /\ verdict = None

SpecScore == InitScore /\ [][ClassifyPage]_vars

(***************************************************************************)
(* The manager specification: one thread calls the methods of the          *)
(* ResourceManager one after the other, with any session ids, while time   *)
(* passes; in the end it calls cleanup_all, as the interpreter does at its *)
(* exit (line 898).  add_driver and remove_driver are one step each: a     *)
(* call that cannot return (no permit left, or the periodic cleanup finds  *)
(* an expired session and remove_driver waits for the lock that add_driver *)
(* holds) is no step.  pc of ManagerThread is the thread's position.       *)
(***************************************************************************)
ManagerThread == 1

ManagerIds == Sessions

\* the number of drivers that the sessions of S have created
RECURSIVE SumCreated(_)
SumCreated(S) ==
    IF S = {} THEN 0
    ELSE LET x == CHOOSE y \in S : TRUE
         IN  created[x] + SumCreated(S \ {x})

\* the add_driver calls made so far
Adds == SumCreated(AllSessions)

\* Lines 51-65: add_driver(sid, d) for a driver d that the caller has created.
CallAddDriver(sid) ==
    /\ pc[ManagerThread] = "idle"
    /\ LockAcquirable(ManagerThread)
    /\ LET due == now - last_cleanup > cleanup_interval
           expired == IF due THEN ExpiredSessions(now) ELSE {}
           d == <<sid, created[sid] + 1>>
       IN  /\ expired = {}
           /\ driver_semaphore > 0
           /\ driver_semaphore' = driver_semaphore - 1
           /\ active_drivers' = [active_drivers EXCEPT ![sid] = Some(Entry(d, now))]
           /\ live' = live \cup {d}
           /\ created' = [created EXCEPT ![sid] = @ + 1]
           /\ last_cleanup' = IF due THEN now ELSE last_cleanup
    /\ UNCHANGED <<now, limiter, lock, foreign_ops, pc, processing, retry_count, driver,
                   current_time, enrollment, msgs, attempts, exit, form, loaded,
                   classifier, delays>>

\* Lines 67-75: remove_driver(sid).
CallRemoveDriver(sid) ==
    /\ pc[ManagerThread] = "idle"
    /\ LockAcquirable(ManagerThread)
    /\ IF Registered(sid)
       THEN /\ live' = live \ DriversOf({sid})
            /\ active_drivers' = [active_drivers EXCEPT ![sid] = None]
            /\ driver_semaphore' = driver_semaphore + 1
       ELSE UNCHANGED <<live, active_drivers, driver_semaphore>>
    /\ UNCHANGED <<now, limiter, lock, last_cleanup, foreign_ops, handler, classifier>>

\* Line 95: cleanup_all takes the lock.
CleanupAllEnter ==
    /\ pc[ManagerThread] = "idle"
    /\ LockAcquirable(ManagerThread)
    /\ lock' = ManagerThread
    /\ pc' = [pc EXCEPT ![ManagerThread] = "cleanup_all"]
    /\ UNCHANGED <<now, limiter, active_drivers, driver_semaphore, last_cleanup, live,
                   foreign_ops, processing, retry_count, driver, current_time,
                   enrollment, msgs, attempts, exit, created, form, loaded,
                   classifier, delays>>

\* Lines 96-97 and 67-75: the loop of cleanup_all, with the lock held.  For a
\* registered session id it calls remove_driver, whose `with self.lock` must
\* acquire the lock; with no id left it returns and releases the lock.
CleanupAllStep ==
    /\ pc[ManagerThread] = "cleanup_all"
    /\ IF \E sid \in AllSessions : Registered(sid)
       THEN /\ LockAcquirable(ManagerThread)
            /\ \E sid \in {x \in AllSessions : Registered(x)} :
                  /\ live' = live \ DriversOf({sid})
                  /\ active_drivers' = [active_drivers EXCEPT ![sid] = None]
                  /\ driver_semaphore' = driver_semaphore + 1
            /\ UNCHANGED <<lock, pc>>
       ELSE /\ lock' = NoHolder
            /\ pc' = [pc EXCEPT ![ManagerThread] = "cleaned"]
            /\ UNCHANGED <<live, active_drivers, driver_semaphore>>
    /\ UNCHANGED <<now, limiter, last_cleanup, foreign_ops, processing, retry_count,
                   driver, current_time, enrollment, msgs, attempts, exit, created,
                   form, loaded, classifier, delays>>

NextManager ==
    \/ now + TickStep <= MaxTime /\ Tick(TickStep)
    \/ \E sid \in ManagerIds : Adds < MaxAdds /\ CallAddDriver(sid)
    \/ \E sid \in ManagerIds : CallRemoveDriver(sid)
    \/ CleanupAllEnter
    \/ CleanupAllStep

SpecManager == Init /\ [][NextManager]_vars


(***************************************************************************)
(* Properties.                                                             *)
(***************************************************************************)
Transient == "wde"

NonTransient ==
    {"invalid_enrollment", "captcha", "server_error", "table_not_found", "no_rows",
     "no_course"}

Ended(s) == pc[s] = "done"

\* a step of the handler of session s, after its click
HandlerStep(s) ==
    \/ ValidationFail(s)
    \/ DriverInitFail(s)
    \/ CreateDriver(s)
    \/ AddDriverEnter(s)
    \/ AddDriverRegister(s)
    \/ LoadFail(s)
    \/ UpdateLastUsed(s)
    \/ \E f \in FormFailures : FormFail(s, f)
    \/ \E p \in Pages : WaitTimeout(s, p)
    \/ \E p \in Pages : ReadPage(s, p)
    \/ Sleep(s)
    \/ Finally(s)

\* C1: an invocation makes at most 3 attempts; two transient failures and
\* then a success end in success (the two retry warnings, then the success
\* message, nothing else); three transient failures end with the failure
\* shown to the user, and no attempt follows them.
C1_AtMostThreeAttempts ==
    \A s \in AllSessions :
        /\ Len(attempts[s]) <= 3
        /\ attempts[s] = <<Transient, Transient, "success">>
              => msgs[s] = <<"retry_warning", "retry_warning", "success">>
        /\ attempts[s] = <<Transient, Transient, Transient>>
              => /\ pc[s] \in {"finally", "done"}
                 /\ msgs[s] = <<"retry_warning", "retry_warning", "retries_exhausted">>

C1_Witness ==
    \E s \in AllSessions :
        /\ Ended(s)
        /\ attempts[s] = <<Transient, Transient, Transient>>
        /\ created[s] = 3

\* C2: when an attempt is over (the next one is about to start, or the
\* invocation has returned), no driver that the session created is still
\* alive and the session has no entry in active_drivers.
C2_DriverReleasedOnEveryExit ==
    \A s \in AllSessions :
        pc[s] \in {"loop", "done"}
            => /\ ~Registered(s)
               /\ \A d \in live : d[1] # s

C2_Witness ==
    \E s \in AllSessions :
        /\ Ended(s)
        /\ attempts[s] = <<Transient, Transient, "table_not_found">>
        /\ created[s] = 3

\* C3: an attempt that ends with a non-transient outcome is the last attempt
\* of its invocation, whatever its number.
C3_NonTransientNeverRetried ==
    \A s \in AllSessions :
        \A i \in DOMAIN attempts[s] :
            attempts[s][i] \in NonTransient => i = Len(attempts[s])

C3_Witness ==
    \E s \in AllSessions :
        /\ Ended(s)
        /\ attempts[s] = <<Transient, "captcha">>
        /\ retry_count[s] = 1

\* C4: as long as some invocation has not ended, some invocation can take a
\* step: no set of threads is blocked for ever in add_driver (the lock, then
\* the semaphore) or in remove_driver (the lock).
C4_NoOperationBlocksIndefinitely ==
    \/ \A s \in AllSessions : pc[s] \in {"idle", "done"}
    \/ \E s \in AllSessions : ENABLED HandlerStep(s)

\* C5: at most 5 drivers created by webdriver.Chrome and not yet quit exist
\* at any time.
C5_AtMostFiveSessions == Cardinality(live) <= 5

C7_RateWindow ==
    \A t \in 0..now :
        Cardinality({i \in DOMAIN admitted :
                        admitted[i] > t - 60 /\ admitted[i] <= t}) <= 10

C7_Witness ==
    /\ Len(admitted) > 10
    /\ \E s \in Sessions : msgs[s] = <<"rate_limited">>

\* C8: a click that the rate limiter rejects creates no driver, makes no
\* attempt, registers nothing, and leaves the processing flag and the
\* limiter's recorded requests as they were.
C8_RateLimitGate ==
    [][\A s \in Sessions :
          ( /\ pc[s] \in {"idle", "done"}
            /\ Cardinality({i \in DOMAIN requests : now - requests[i] < 60}) >= 10
            /\ <<pc[s], msgs[s], enrollment[s], attempts[s]>>' #
                  <<pc[s], msgs[s], enrollment[s], attempts[s]>> )
          => /\ msgs'[s] = <<"rate_limited">>
             /\ pc'[s] = "done"
             /\ attempts'[s] = <<>>
             /\ created' = created
             /\ live' = live
             /\ driver' = driver
             /\ active_drivers' = active_drivers
             /\ driver_semaphore' = driver_semaphore
             /\ processing' = processing
             /\ requests' = requests]_vars

C8_Witness ==
    \E s \in Sessions :
        /\ msgs[s] = <<"rate_limited">>
        /\ Ended(s)
        /\ Len(requests) = 10

\* the raw page holds the letters c-a-p-t-c-h-a in a row, in any letter case
HoldsCaptchaAnyCase(p) ==
    LET src == page_source(p)
    IN  \E i \in 1..Len(src) :
            /\ i + 6 <= Len(src)
            /\ \A j \in 1..7 : LowerChar(src[i + j - 1]) = CaptchaWord[j]

HasCaptcha(p) == p.captchaDiv \/ HoldsCaptchaAnyCase(p)

\* the message region is present and holds more than white space
HasMessage(p) ==
    /\ p.msg # None
    /\ \E i \in DOMAIN Get(p.msg) : ~IsSpace(Get(p.msg)[i])

InSeq(x, seq) == \E i \in DOMAIN seq : seq[i] = x

\* C9: a page with a CAPTCHA indicator and a non-empty message region is
\* handled as a CAPTCHA challenge, never as a server error: the CAPTCHA
\* message is the first one shown and no server error is shown.
C9_CaptchaBeforeMessage ==
    (verdict # None /\ HasCaptcha(page) /\ HasMessage(page))
        => /\ Get(verdict).outcome = "captcha"
           /\ Get(verdict).msgs[1] = "captcha"
           /\ ~InSeq("server_error", Get(verdict).msgs)

C9_Witness ==
    /\ verdict # None
    /\ ~page.captchaDiv
    /\ HoldsCaptchaAnyCase(page)
    /\ ~Contains(CaptchaWord, page_source(page))
    /\ HasMessage(page)
    /\ page.table # None

\* C10: without a CAPTCHA indicator, a message region with text gives the
\* server error with the trimmed text, also when the table is present;
\* otherwise a table present is extracted; otherwise the outcome is table not
\* found, which shows another message than a server error does.  An empty or
\* white-space message region is no server error.
C10_MessageThenTable ==
    (verdict # None /\ ~HasCaptcha(page))
        => LET v == Get(verdict)
           IN  /\ HasMessage(page)
                    => /\ v.outcome = "server_error"
                       /\ v.msgs[1] = "server_error"
                       /\ v.text # <<>>
                       /\ ~IsSpace(v.text[1]) /\ ~IsSpace(v.text[Len(v.text)])
                       /\ \E i, j \in DOMAIN Get(page.msg) :
                             v.text = SubSeq(Get(page.msg), i, j)
               /\ (~HasMessage(page) /\ page.table # None)
                    => v.outcome \in {"no_rows", "no_course", "exception", "success"}
               /\ (~HasMessage(page) /\ page.table = None)
                    => /\ v.outcome = "table_not_found"
                       /\ v.msgs = <<"table_not_found">>
               /\ ~HasMessage(page) => ~InSeq("server_error", v.msgs)

C10_Witness ==
    /\ verdict # None
    /\ ~HasCaptcha(page)
    /\ page.msg = Some(<<" ","N","o"," ","d","a","t","a","\n">>)
    /\ page.table # None
    /\ Get(verdict).outcome = "server_error"

\* every character is one of 0-9
AllDecimal(e) == \A i \in DOMAIN e : e[i] \in DigitChars

\* the first attempt went past the validation of lines 377-380
Accepted(s) == attempts[s] # <<>> /\ attempts[s][1] # "invalid_enrollment"

\* C11: once the validation has run, the enrollment was accepted if and only
\* if every character of it is one of 0-9 and its length is 9 or 10; the
\* empty string is rejected.
C11_ValidationIffNumeric ==
    /\ ~ValidEnrollment(<<>>)
    /\ \A s \in AllSessions :
          attempts[s] # <<>>
              => (Accepted(s) <=> (AllDecimal(enrollment[s]) /\ Len(enrollment[s]) \in {9, 10}))

Last(seq) == seq[Len(seq)]

\* C12: the login button is the fourth control operated, after the category,
\* the program and the enrollment field in this order; an attempt that ends
\* with its driver registered and the form not completely operated has ended
\* as a transient failure (the loop goes on) and has not clicked the button.
C12_SubmitAfterFields ==
    \A s \in AllSessions :
        /\ \A i \in DOMAIN form[s] :
              form[s][i] = "btnlogin"
                  => /\ i = 4
                     /\ SubSeq(form[s], 1, 3) = <<"ddlGradecardfor", "ddlProgram", "txtEnrno">>
        /\ (pc[s] \in {"sleep", "finally"} /\ Registered(s) /\ Len(form[s]) < 4)
              => /\ Last(attempts[s]) = Transient
                 /\ exit[s] = "continue"
                 /\ ~InSeq("btnlogin", form[s])
                 /\ loaded[s] = None

\* the login button is not found after the three fields were set
C12_Witness ==
    \E s \in AllSessions :
        /\ pc[s] = "sleep"
        /\ form[s] = <<"ddlGradecardfor", "ddlProgram", "txtEnrno">>
        /\ attempts[s] = <<Transient>>
        /\ msgs[s] = <<"retry_warning">>

\* what the classifier and the extraction can make of a page
Classified ==
    {"captcha", "server_error", "table_not_found", "no_rows", "no_course", "exception",
     "success"}

\* C13: when the wait after the submission has ended on a page, the attempt
\* was classified if and only if the page holds the results table or the
\* message element; on a page with neither the attempt ended as a transient
\* failure, which the loop retries, and nothing of the classifier was shown.
C13_ClassifiedOnlyAfterWait ==
    \A s \in AllSessions :
        loaded[s] # None
            => LET p == Get(loaded[s])
               IN  /\ (p.table # None \/ p.msg # None)
                        => Last(attempts[s]) \in Classified
                   /\ (p.table = None /\ p.msg = None)
                        => /\ Last(attempts[s]) = Transient
                           /\ exit[s] = "continue"
                           /\ Last(msgs[s]) \in {"retry_warning", "retries_exhausted"}
                           /\ retry_count[s] <= max_retries
                                 => pc[s] \in {"sleep", "finally"}

\* the wait timed out on a page that shows the CAPTCHA div, and is retried
C13_Witness ==
    \E s \in AllSessions :
        /\ pc[s] = "finally"
        /\ loaded[s] # None
        /\ Get(loaded[s]).table = None /\ Get(loaded[s]).msg = None
        /\ Get(loaded[s]).captchaDiv
        /\ attempts[s] = <<Transient>>
        /\ retry_count[s] = 1

(***************************************************************************)
(* Properties of the extraction and the score calculation.                 *)
(***************************************************************************)
\* the course code starts with the letters M, C, S, L
StartsMCSL(c) == Len(c) >= 4 /\ c[1] = "M" /\ c[2] = "C" /\ c[3] = "S" /\ c[4] = "L"

\* the course code holds the letters l, a, b in a row, in any letter case
HoldsLabAnyCase(c) ==
    \E i \in 1..(Len(c) - 2) :
        c[i] \in {"l", "L"} /\ c[i + 1] \in {"a", "A"} /\ c[i + 2] \in {"b", "B"}

Qualifies(rec) ==
    /\ rec.STATUS = <<"C","O","M","P","L","E","T","E","D">>
    /\ StartsMCSL(rec.COURSE) \/ ~HoldsLabAnyCase(rec.COURSE)

\* the scored records of a result
ScoredOf(v) == IF v.summary = None THEN <<>> ELSE Get(v.summary).scored

\* the extracted fields of a record
Extracted(rec) == <<rec.COURSE, rec.STATUS, rec.Asgn1, rec.THEORY, rec.PRACTICAL>>

\* C14: the scored records are exactly, and in order, the extracted records
\* with status COMPLETED whose course code starts with MCSL or does not hold
\* "lab" in any letter case; subjectCount is their number.
C14_ScoredSet ==
    (verdict # None /\ Get(verdict).df # <<>>)
        => LET v == Get(verdict)
               wanted == SelectSeq(v.df, Qualifies)
           IN  /\ Len(ScoredOf(v)) = Len(wanted)
               /\ \A i \in DOMAIN wanted : Extracted(ScoredOf(v)[i]) = Extracted(wanted[i])
               /\ v.summary # None => Get(v.summary).num_subjects = Len(wanted)

\* MCSL001LAB is scored although it holds LAB; CSLab02 is not
C14_Witness ==
    /\ verdict # None
    /\ Get(page.table).rows = << <<MCSL001LAB, COMPLETED, n40, n0, n80>>,
                                 <<CSLab02, COMPLETED, n50, n50, n50>> >>
    /\ Len(Get(page.table).headers) = 5
    /\ Get(verdict).outcome = "success"
    /\ Len(ScoredOf(Get(verdict))) = 1

\* C15: a COMPLETED record with course code BCSL012 is not among the scored
\* records and does not count toward subjectCount.
C15_BCSL012Excluded ==
    verdict # None
        => LET v == Get(verdict)
               others == SelectSeq(v.df, LAMBDA rec : Qualifies(rec) /\ rec.COURSE # BCSL012)
           IN  /\ \A i \in DOMAIN ScoredOf(v) : ScoredOf(v)[i].COURSE # BCSL012
               /\ v.summary # None => Get(v.summary).num_subjects = Len(others)

\* C16: in tenths, the total of a scored record is 3 x assignment + 7 x
\* practical for a course code that starts with MCSL, and 3 x assignment +
\* 7 x theory for any other; the two weighted scores add up to the total.
C16_WeightedTotal ==
    verdict # None
        => \A i \in DOMAIN ScoredOf(Get(verdict)) :
              LET rec == ScoredOf(Get(verdict))[i]
              IN  /\ rec.Assignments30 = 3 * rec.Asgn1
                  /\ StartsMCSL(rec.COURSE) => rec.Theory70 = 7 * rec.PRACTICAL
                  /\ ~StartsMCSL(rec.COURSE) => rec.Theory70 = 7 * rec.THEORY
                  /\ rec.Total = rec.Assignments30 + rec.Theory70

\* MCSL016 with theory 70 and practical 80 has total 71.0; MCS014 with
\* theory "AB" and practical 87 has total 0
C16_Witness ==
    /\ verdict # None
    /\ Len(ScoredOf(Get(verdict))) = 2
    /\ LET a == ScoredOf(Get(verdict))[1]
           b == ScoredOf(Get(verdict))[2]
       IN  /\ a.COURSE = MCSL016 /\ a.Asgn1 = 50 /\ a.THEORY = 70 /\ a.PRACTICAL = 80
           /\ a.Total = 710
           /\ b.COURSE = MCS014 /\ b.PRACTICAL = 87 /\ b.Total = 0

RECURSIVE TotalOf(_)
TotalOf(recs) == IF recs = <<>> THEN 0 ELSE recs[1].Total + TotalOf(Tail(recs))

Distance(a, b) == IF a >= b THEN a - b ELSE b - a

\* C17: with n scored records whose totals add up to T tenths, subjectCount
\* is n (the Total row is not counted), totalPossibleMarks is 100 n and the
\* percentage, in hundredths, is the integer nearest to 10 T / n; totals 72.5
\* and 81.0 give 76.75; when the table has rows and none is scored, the
\* result is shown with percentage 0.
C17_Percentage ==
    (verdict # None /\ Get(verdict).df # <<>>)
        => LET v == Get(verdict)
               n == Len(SelectSeq(v.df, Qualifies))
           IN  /\ n = 0 => /\ v.outcome = "success"
                           /\ v.summary # None
                           /\ Get(v.summary).percentage = 0
               /\ v.summary # None
                    => LET m == Get(v.summary)
                       IN  /\ m.num_subjects = Len(m.scored)
                           /\ m.total_possible_marks = 100 * m.num_subjects
                           /\ m.total_obtained_marks = TotalOf(m.scored)
                           /\ 2 * Distance(m.percentage * m.num_subjects,
                                           10 * TotalOf(m.scored)) <= m.num_subjects
                           /\ (Len(m.scored) = 2 /\ m.scored[1].Total = 725
                                   /\ m.scored[2].Total = 810)
                                 => /\ m.num_subjects = 2
                                    /\ m.total_possible_marks = 200
                                    /\ m.percentage = 7675

\* the positions of the rows with as many cells as the header row
FittingRows(t) == {i \in DOMAIN t.rows : Len(t.rows[i]) = Len(t.headers)}

\* the k-th smallest element of the set K of numbers
Kth(K, k) == CHOOSE i \in K : Cardinality({j \in K : j < i}) = k - 1

\* C18: the rows kept are exactly the rows with as many cells as the header
\* row, in their order, and nothing is shown about the others; when no row
\* is kept the no-rows error is shown, the invocation stops and nothing is
\* scored.
C18_RowFilter ==
    (verdict # None /\ page.table # None /\ Get(verdict).outcome \in Classified
        /\ Get(verdict).outcome \notin {"captcha", "server_error"})
        => LET t == Get(page.table)
               v == Get(verdict)
               K == FittingRows(t)
           IN  /\ K = {} => /\ v.outcome = "no_rows"
                            /\ v.msgs = <<"no_rows">>
                            /\ v.exit = "stop"
                            /\ v.summary = None
               /\ K # {} => /\ Len(v.rows) = Cardinality(K)
                            /\ \A k \in DOMAIN v.rows : v.rows[k] = t.rows[Kth(K, k)]
                            /\ v.outcome # "no_rows"
                            /\ \A i \in DOMAIN v.msgs :
                                  v.msgs[i] \in {"no_course", "column_missing",
                                                 "generic_error", "success"}
                            /\ v.df # <<>> => Len(v.df) = Cardinality(K)

\* a header row of width 5 and one row, of width 4
C18_Witness ==
    /\ verdict # None
    /\ Len(Get(page.table).headers) = 5
    /\ Get(page.table).rows = << <<MCS012, COMPLETED, n87, Absent>> >>
    /\ Get(verdict).outcome = "no_rows"

\* C19: a table with rows kept and no COURSE header gives the missing-COURSE
\* error: that message alone is shown, the invocation stops, and there is no
\* summary.
C19_MissingCourse ==
    (verdict # None /\ page.table # None /\ ~page.captchaDiv /\ page.msg = None
        /\ page.text = <<>>)
        => LET t == Get(page.table)
               v == Get(verdict)
           IN  (FittingRows(t) # {} /\ \A i \in DOMAIN t.headers : t.headers[i] # "COURSE")
                  => /\ v.outcome = "no_course"
                     /\ v.msgs = <<"no_course">>
                     /\ v.exit = "stop"
                     /\ v.summary = None
                     /\ v.df = <<>>

C19_Witness ==
    /\ verdict # None
    /\ Get(page.table).headers = <<"STATUS", "Asgn1", "TERM END THEORY", "TERM END PRACTICAL">>
    /\ Len(Get(page.table).rows) = 2
    /\ FittingRows(Get(page.table)) = {2}
    /\ Get(verdict).outcome = "no_course"

\* the numbers that the cell texts of the sample tables stand for
KnownValues ==
    { <<n0, 0>>, <<n40, 40>>, <<n50, 50>>, <<n55, 55>>, <<n60, 60>>, <<n70, 70>>,
      <<n80, 80>>, <<n87, 87>>, <<n90, 90>>,
      <<Dash, 0>>, <<NotAvailable, 0>>, <<Blank, 0>>, <<Absent, 0>> }

KnownValue(cell) == (CHOOSE pr \in KnownValues : pr[1] = cell)[2]

Position(t, c) == CHOOSE i \in DOMAIN t.headers : t.headers[i] = c

Expected(t, r, c) ==
    IF \E i \in DOMAIN t.headers : t.headers[i] = c THEN KnownValue(r[Position(t, c)]) ELSE 0

\* C20: after the conversion every record holds, for each of the three
\* numeric columns, the number that its cell stands for ("-", "N/A", "" and
\* a text that is no number are 0), and 0 when the table lacks the column;
\* one warning is shown for every column that is lacking, and the scoring
\* goes on: with a record to score the result is a success.
C20_NumericCoercion ==
    (verdict # None /\ Get(verdict).df # <<>>)
        => LET t == Get(page.table)
               v == Get(verdict)
               lacking == {c \in {"Asgn1", "TERM END THEORY", "TERM END PRACTICAL"} :
                              \A i \in DOMAIN t.headers : t.headers[i] # c}
           IN  /\ \A i \in DOMAIN v.df :
                     /\ v.df[i].Asgn1 = Expected(t, v.rows[i], "Asgn1")
                     /\ v.df[i].THEORY = Expected(t, v.rows[i], "TERM END THEORY")
                     /\ v.df[i].PRACTICAL = Expected(t, v.rows[i], "TERM END PRACTICAL")
               /\ Cardinality({i \in DOMAIN v.msgs : v.msgs[i] = "column_missing"})
                     = Cardinality(lacking)
               /\ (\E i \in DOMAIN v.df : Qualifies(v.df[i])) => v.outcome = "success"

\* no TERM END PRACTICAL column; assignment "87", theory "AB"
C20_Witness ==
    /\ verdict # None
    /\ Get(page.table).headers = <<"COURSE", "STATUS", "Asgn1", "TERM END THEORY">>
    /\ Get(verdict).rows = << <<MCS012, COMPLETED, n87, Absent>> >>
    /\ Get(verdict).outcome = "success"
    /\ Get(verdict).msgs = <<"column_missing", "success">>
    /\ Get(verdict).df[1].Asgn1 = 87
    /\ Get(verdict).df[1].THEORY = 0
    /\ Get(verdict).df[1].PRACTICAL = 0
    /\ Get(Get(verdict).summary).percentage = 2610

(***************************************************************************)
(* Properties of the incomplete subjects.                                  *)
(***************************************************************************)
NotCompleted(rec) == rec.STATUS # <<"C","O","M","P","L","E","T","E","D">>

ExtractedFields == {"COURSE", "STATUS", "Asgn1", "THEORY", "PRACTICAL"}

\* C21: when a result is shown, the incomplete subjects of the PDF report and
\* those of the screen are both exactly, and in order, the extracted records
\* whose status is not COMPLETED: none is removed by the lab rule or by its
\* course name, and the records hold the extracted fields only.
C21_IncompleteView ==
    (verdict # None /\ Get(verdict).summary # None)
        => LET v == Get(verdict)
               wanted == SelectSeq(v.df, NotCompleted)
           IN  /\ v.incomplete_report = wanted
               /\ v.incomplete_displayed = wanted
               /\ \A i \in DOMAIN v.incomplete_report :
                     DOMAIN v.incomplete_report[i] = ExtractedFields
               /\ \A i \in DOMAIN v.incomplete_displayed :
                     DOMAIN v.incomplete_displayed[i] = ExtractedFields

(***************************************************************************)
(* Properties of the retry loop and its ways out.                          *)
(***************************************************************************)
\* the error messages among the messages shown (the retry warnings, the
\* warnings about lacking columns and the success message are none)
ErrorsShown(s) ==
    SelectSeq(msgs[s], LAMBDA m : m \notin {"retry_warning", "column_missing", "success"})

\* the error message that names a terminal failure kind
MessageOfKind(kind) == IF kind = Transient THEN "retries_exhausted" ELSE kind

\* C22: an invocation that has ended with a terminal failure kind (invalid
\* input, CAPTCHA, server error message, table not found, no valid rows,
\* missing COURSE, retries exhausted) has shown exactly one error message,
\* the one of that kind; the generic error is not shown with it.
C22_OneSpecificError ==
    \A s \in AllSessions :
        (Ended(s) /\ attempts[s] # <<>>
            /\ Last(attempts[s]) \in NonTransient \cup {Transient})
            => /\ ErrorsShown(s) = <<MessageOfKind(Last(attempts[s]))>>
               /\ ~InSeq("generic_error", msgs[s])

Min(a, b) == IF a < b THEN a ELSE b

\* an attempt of session s is under way: its driver exists
AttemptUnderWay(s) == pc[s] \in {"add_driver", "add_locked", "registered", "form"}

\* C23: every delay lasts 3 time units.  A delay is slept after the handler
\* has decided to retry a transiently failed attempt (the retry warning is
\* shown) and before the next attempt begins: while attempt k is under way,
\* and when the loop is about to start attempt k + 1, k - 1 resp. k delays
\* have been slept.  An invocation that has ended after n attempts has slept
\* n - 1 delays: none follows the final failed attempt, a success or a fatal
\* outcome.
C23_DelayBetweenAttempts ==
    \A s \in AllSessions :
        /\ \A i \in DOMAIN delays[s] : delays[s][i] = 3
        /\ pc[s] = "sleep"
              => /\ Len(delays[s]) = Len(attempts[s]) - 1
                 /\ Last(attempts[s]) = Transient
                 /\ Last(msgs[s]) = "retry_warning"
                 /\ retry_count[s] <= 2
        /\ AttemptUnderWay(s) => Len(delays[s]) = Len(attempts[s]) - 1
        /\ pc[s] = "loop" => Len(delays[s]) = Len(attempts[s])
        /\ (Ended(s) /\ attempts[s] # <<>>) => Len(delays[s]) = Len(attempts[s]) - 1
        /\ Len(delays[s]) = Min(retry_count[s], 2) - (IF pc[s] = "sleep" THEN 1 ELSE 0)

\* three failed attempts, two delays
C23_Witness ==
    \E s \in AllSessions :
        /\ Ended(s)
        /\ attempts[s] = <<Transient, Transient, Transient>>
        /\ delays[s] = <<3, 3>>

\* C24: an attempt that raises an error which is no WebDriverException (here:
\* the table has no STATUS column) is the last attempt of its invocation: the
\* generic error is the last message shown, the retry counter is not
\* advanced, the processing flag is False, and once the invocation has ended
\* the session has no registered and no live driver.
C24_OtherErrorsEndInvocation ==
    \A s \in AllSessions :
        /\ \A i \in DOMAIN attempts[s] :
              attempts[s][i] = "exception" => i = Len(attempts[s])
        /\ (attempts[s] # <<>> /\ Last(attempts[s]) = "exception")
              => /\ pc[s] \in {"finally", "done"}
                 /\ exit[s] = "break"
                 /\ Last(msgs[s]) = "generic_error"
                 /\ retry_count[s] = Len(attempts[s]) - 1
                 /\ ~processing[s]
                 /\ Ended(s) => /\ ~Registered(s)
                                /\ \A d \in live : d[1] # s
                                /\ driver_semaphore + Cardinality({x \in AllSessions :
                                                                     Registered(x)}) = 5

\* a transient failure, then a table without a STATUS column
C24_Witness ==
    \E s \in AllSessions :
        /\ Ended(s)
        /\ attempts[s] = <<Transient, "exception">>
        /\ msgs[s] = <<"retry_warning", "generic_error">>
        /\ created[s] = 2

\* C25: while an admitted invocation has not reached its terminal outcome
\* (an attempt is about to start or under way, or the handler sleeps between
\* two attempts) the processing flag is True; once the invocation has ended
\* it is False.
C25_ProcessingWhileRunning ==
    \A s \in AllSessions :
        /\ (pc[s] \in {"loop", "sleep"} \/ AttemptUnderWay(s)) => processing[s]
        /\ Ended(s) => ~processing[s]

\* the drivers that session s created and that are not quit
LiveOf(s) == {d \in live : d[1] = s}

\* C26: a session has at most one live driver, and a registered driver is
\* the one that the current attempt created; when the loop is about to start
\* the next attempt, the driver of the attempt before is quit, the session
\* has no entry in active_drivers, and its permit is back: the permits left
\* and the entries add up to 5.
C26_OneDriverPerAttempt ==
    \A s \in AllSessions :
        /\ Cardinality(LiveOf(s)) <= 1
        /\ Registered(s)
              => /\ Get(active_drivers[s]).driver = <<s, created[s]>>
                 /\ driver[s] = <<s, created[s]>>
                 /\ LiveOf(s) = {<<s, created[s]>>}
        /\ pc[s] = "loop" => (~Registered(s) /\ LiveOf(s) = {})
        /\ driver_semaphore + Cardinality({x \in AllSessions : Registered(x)})
              = semaphore_permits

\* the driver of the second attempt is registered, that of the first is gone
C26_Witness ==
    \E s \in AllSessions :
        /\ pc[s] = "registered"
        /\ attempts[s] = <<Transient, "started">>
        /\ created[s] = 2
        /\ LiveOf(s) = {<<s, 2>>}
        /\ Registered(s)
        /\ driver_semaphore = 4

(***************************************************************************)
(* Properties of the ResourceManager.                                      *)
(***************************************************************************)
Entries == {sid \in AllSessions : Registered(sid)}

\* C27: between two calls of add_driver and remove_driver, the number of
\* entries of active_drivers and the number of permits left add up to 5.
C27_EntriesPlusPermits ==
    pc[ManagerThread] = "idle" => Cardinality(Entries) + driver_semaphore = 5

\* C28: cleanup_all, once it holds the lock, can take its next step, so it
\* comes to its end; when it has returned, active_drivers is empty, every
\* driver is quit and all 5 permits are available.
C28_CleanupAllTerminates ==
    /\ pc[ManagerThread] = "cleanup_all" => ENABLED CleanupAllStep
    /\ pc[ManagerThread] = "cleaned"
          => (Entries = {} /\ live = {} /\ driver_semaphore = 5)

(***************************************************************************)
(* Properties of the rate limiter's record.                                *)
(***************************************************************************)
\* the recorded requests that are within the window at the current time
InWindow == SelectSeq(requests, LAMBDA req_time : now - req_time < 60)

\* C29: the step that admits an invocation records one request, at the
\* current time, before the validation has run; no later step of the
\* invocation (validation, attempts, retries, delay, release) changes the
\* recorded requests, so an invocation whose enrollment is rejected keeps
\* its slot taken.
C29_OneRequestPerInvocation ==
    [][\A s \in AllSessions :
          /\ (pc[s] \in {"idle", "done"} /\ pc'[s] = "loop")
                => /\ Len(requests') = Len(InWindow) + 1
                   /\ Last(requests') = now
                   /\ attempts'[s] = <<>>
          /\ (pc[s] \notin {"idle", "done"} /\ pc'[s] # pc[s])
                => requests' = requests
          /\ (attempts[s] = <<>> /\ attempts'[s] = <<"invalid_enrollment">>)
                => (requests' = requests /\ requests # <<>>)]_vars

\* three attempts of one invocation, one request recorded
C29_Witness ==
    \E s \in AllSessions :
        /\ Ended(s)
        /\ attempts[s] = <<Transient, Transient, "success">>
        /\ requests = <<0>>
        /\ admitted = <<0>>

(***************************************************************************)
(* Properties of the two views together.                                   *)
(***************************************************************************)
\* a COMPLETED record that the lab rule rejects
LabRejected(rec) ==
    /\ rec.STATUS = <<"C","O","M","P","L","E","T","E","D">>
    /\ HoldsLabAnyCase(rec.COURSE) /\ ~StartsMCSL(rec.COURSE)

\* the extracted record rec is among the records of view
InView(rec, view) == \E i \in DOMAIN view : Extracted(view[i]) = Extracted(rec)

\* the scored records and the incomplete records inc share no record; every
\* extracted record is in exactly one of them, but for the records that the
\* lab rule rejects, which are in neither
Partition(v, inc) ==
    /\ \A i \in DOMAIN inc : ~InView(inc[i], ScoredOf(v))
    /\ \A k \in DOMAIN v.df :
          IF LabRejected(v.df[k])
          THEN ~InView(v.df[k], ScoredOf(v)) /\ ~InView(v.df[k], inc)
          ELSE InView(v.df[k], ScoredOf(v)) # InView(v.df[k], inc)
    /\ Len(v.df) = Len(ScoredOf(v)) + Len(inc) + Len(SelectSeq(v.df, LabRejected))

\* C30: when a result is shown, the scored records and the incomplete
\* subjects (of the PDF report, and of the screen) are disjoint, every
\* extracted record is in exactly one of the two except the COMPLETED
\* records that the lab rule rejects, and these are in neither and in no
\* total.
C30_ViewsPartition ==
    (verdict # None /\ Get(verdict).summary # None)
        => LET v == Get(verdict)
               m == Get(v.summary)
           IN  /\ Partition(v, v.incomplete_report)
               /\ Partition(v, v.incomplete_displayed)
               /\ m.totals.Total = TotalOf(m.scored)
               /\ m.total_obtained_marks = TotalOf(m.scored)
               /\ \A i \in DOMAIN m.scored : ~LabRejected(m.scored[i])

=============================================================================
